---- MODULE Spec2Model ----
(***************************************************************************)
(* Model of the TUI runtime of tui/src/runtime.rs: run() drives a Program  *)
(* from three inputs (the background task's join handle, the ctrl-c        *)
(* listener, a 60 Hz interval) while producers holding a Handle enqueue    *)
(* Message and Print events on an unbounded mpsc channel.                  *)
(*                                                                         *)
(* The loop thread is modelled by pc; the background closure f, the        *)
(* producers, the timer and the interrupt are separate actions that        *)
(* interleave with it.  log records, in order, every input the loop        *)
(* selected and every call it made on the Program and the terminal, and    *)
(* the moment the interrupt fired.                                         *)
(***************************************************************************)
EXTENDS Integers, Sequences, FiniteSets

VARIABLES
    pc,             \* position of the loop thread inside run()
    terminal,       \* ratatui terminal: viewport, cursor, frame, teardown calls
    queue,          \* events in the mpsc channel, oldest first
    receiverAlive,  \* the receiver half still exists (run() has not ended)
    print,          \* the Render step's local vec of drained Print events
    task,           \* the spawn_blocking task running f: its state, f's
                    \* outcome, and the number of times f was invoked
    sent,           \* per producer: number of Handle.update/print calls made
    sendFailures,   \* send errors surfaced to a caller of Handle.update/print
    enq,            \* history: events accepted by the channel, in enqueue order
    log,            \* history: inputs selected and calls made by the loop,
                    \* and the interrupt at the moment it fired
    sigint,         \* the interrupt signal has fired
    tickReady,      \* the interval has a tick ready
    result          \* how run() ended

vars == <<pc, terminal, queue, receiverAlive, print, task, sent, sendFailures,
          enq, log, sigint, tickReady, result>>

----------------------------------------------------------------------------
(* Bounds *)

MaxSends == 2
MaxTicks == 2
MaxQueue == 2
BigLines == 65536

(* Program constants *)

U16Bits == 16

----------------------------------------------------------------------------
(* Data *)

\* f itself and a thread holding a clone of the Handle
Producers == {"f", "clone"}

\* values f can return
Values == {"v1", "v2"}

\* A String is a sequence of runs of one character (run-length encoded).
Rep(ch, n) == [ch |-> ch, n |-> n]

\* "" (no line), "a\nb" (two lines), and BigLines line breaks (BigLines lines)
Texts == { <<>>,
           <<Rep("a", 1), Rep("\n", 1), Rep("b", 1)>>,
           <<Rep("\n", BigLines)>> }

RECURSIVE Newlines(_)
Newlines(s) ==
    IF s = <<>> THEN 0
    ELSE (IF Head(s).ch = "\n" THEN Head(s).n ELSE 0) + Newlines(Tail(s))

\* str::lines().count(): one line per line break, plus a last line when the
\* text does not end in a line break; the empty string has no line.
LineCount(s) ==
    Newlines(s) + (IF s # <<>> /\ s[Len(s)].ch # "\n" THEN 1 ELSE 0)

\* print.iter().flat_map(|content| content.lines()).collect().len()
RECURSIVE NumLines(_)
NumLines(p) ==
    IF p = <<>> THEN 0 ELSE LineCount(Head(p).text) + NumLines(Tail(p))

\* num_lines as u16
AsU16(n) == n % (2 ^ U16Bits)

\* Event::Message(message) / Event::Print(content)
EventMessage(id) == [kind |-> "Message", id |-> id, text |-> <<>>]
EventPrint(id, content) == [kind |-> "Print", id |-> id, text |-> content]

RECURSIVE Ids(_)
Ids(evs) == IF evs = <<>> THEN <<>> ELSE <<Head(evs).id>> \o Ids(Tail(evs))

\* Result<T> of run(), or the process exit
NoResult == [kind |-> "none", val |-> "-", code |-> -1]
Ok(v) == [kind |-> "Ok", val |-> v, code |-> -1]
Err(cause) == [kind |-> "Err", val |-> cause, code |-> -1]
Exit(status) == [kind |-> "exit", val |-> "-", code |-> status]

\* the output of the JoinHandle: Ok(value of f), or a JoinError when f panicked
JoinOutput(t) ==
    IF t.out = "panic" THEN [ok |-> FALSE, val |-> "JoinError"]
    ELSE [ok |-> TRUE, val |-> t.out]

\* one entry of log
Entry(op, ids, height, lines) ==
    [op |-> op, ids |-> ids, height |-> height, lines |-> lines]
Did(op) == Entry(op, <<>>, 0, 0)

Count(op) == Cardinality({i \in 1..Len(log) : log[i].op = op})

----------------------------------------------------------------------------
(* Terminal operations *)

\* Terminal::draw: renders the frame and hides the cursor
TerminalDraw(t) == [t EXCEPT !.frame = TRUE, !.cursorHidden = TRUE]

ShowCursor(t) == [t EXCEPT !.cursorHidden = FALSE, !.showCursor = @ + 1]

Clear(t) == [t EXCEPT !.frame = FALSE, !.clear = @ + 1]

\* variant: the cursor is restored but the viewport is never cleared
TeardownWithoutClear(t, failed) ==
    IF failed = "show_cursor" THEN t ELSE ShowCursor(t)

\* show_cursor()?; clear()?  -- failed names the operation that fails, if any
Teardown(t, failed) ==
    IF failed = "show_cursor" THEN t
    ELSE IF failed = "clear" THEN ShowCursor(t)
    ELSE Clear(ShowCursor(t))

TeardownOutcomes == {"none", "show_cursor", "clear"}

----------------------------------------------------------------------------
(* Channel *)

\* variant: a channel of capacity one, a send on a full channel is refused
MpscSendBounded(q, alive, ev) ==
    IF alive /\ Len(q) < 1 THEN [queue |-> Append(q, ev), res |-> "Ok"]
    ELSE [queue |-> q, res |-> "Err"]

\* UnboundedSender::send: Ok and enqueued while the receiver exists, Err after
MpscSend(q, alive, ev) ==
    IF alive THEN [queue |-> Append(q, ev), res |-> "Ok"]
    ELSE [queue |-> q, res |-> "Err"]

\* variant: the newest event is taken first
TryRecvNewest(q) == [event |-> q[Len(q)], rest |-> SubSeq(q, 1, Len(q) - 1)]

\* UnboundedReceiver::try_recv on a non-empty channel: the oldest event
TryRecv(q) == [event |-> Head(q), rest |-> Tail(q)]

\* let _ = self.sender.send(..): the result is dropped, nothing is surfaced
HandleSend(q, alive, ev) ==
    [queue |-> MpscSend(q, alive, ev).queue, surfaced |-> 0]

----------------------------------------------------------------------------
Init ==
    /\ pc = "setup"
    /\ terminal = [viewport |-> FALSE, cursorHidden |-> FALSE, frame |-> FALSE,
                   showCursor |-> 0, clear |-> 0]
    /\ queue = <<>>
    /\ receiverAlive = FALSE
    /\ print = <<>>
    /\ task = [st |-> "none", out |-> "none", calls |-> 0]
    /\ sent = [p \in Producers |-> 0]
    /\ sendFailures = 0
    /\ enq = <<>>
    /\ log = <<>>
    /\ sigint = FALSE
    /\ tickReady = FALSE
    /\ result = NoResult

\* variant: the result is recorded but the loop goes on to its next iteration
ReturnThenContinue(r) ==
    /\ pc' = "select"
    /\ result' = r
    /\ receiverAlive' = receiverAlive

\* run() returns: the locals of the async block (the receiver) are dropped
Return(r) ==
    /\ pc' = "returned"
    /\ result' = r
    /\ receiverAlive' = FALSE

ProcessAlive == pc # "exited"

----------------------------------------------------------------------------
(* The loop thread *)

\* runtime build and Terminal::with_options(.. Viewport::Inline(P::LINES))?
Setup ==
    /\ pc = "setup"
    /\ \E ok \in BOOLEAN :
         IF ok
         THEN /\ terminal' = [terminal EXCEPT !.viewport = TRUE]
              /\ pc' = "initial_draw"
              /\ UNCHANGED <<result, receiverAlive>>
         ELSE /\ Return(Err("terminal"))
              /\ UNCHANGED terminal
    /\ UNCHANGED <<queue, print, task, sent, sendFailures, enq, log, sigint,
                   tickReady>>

\* variant: no initial view is drawn, the task is spawned at once
InitialDrawSkipped ==
    /\ pc = "initial_draw"
    /\ pc' = "spawn"
    /\ UNCHANGED <<terminal, queue, receiverAlive, print, task, sent,
                   sendFailures, enq, log, sigint, tickReady, result>>

\* terminal.draw(|frame| program.draw(frame))?  -- the initial view
InitialDraw ==
    /\ pc = "initial_draw"
    /\ \E ok \in BOOLEAN :
         IF ok
         THEN /\ terminal' = TerminalDraw(terminal)
              /\ log' = Append(log, Did("draw"))
              /\ pc' = "spawn"
              /\ UNCHANGED <<result, receiverAlive>>
         ELSE /\ Return(Err("terminal"))
              /\ UNCHANGED <<terminal, log>>
    /\ UNCHANGED <<queue, print, task, sent, sendFailures, enq, sigint,
                   tickReady>>

\* unbounded_channel(); spawn_blocking(f(Handle { sender })); ctrl_c(); interval
Spawn ==
    /\ pc = "spawn"
    /\ receiverAlive' = TRUE
    /\ task' = [st |-> "spawned", out |-> "none", calls |-> 0]
    /\ pc' = "select"
    /\ UNCHANGED <<terminal, queue, print, sent, sendFailures, enq, log,
                   sigint, tickReady, result>>

\* variant: the interval is polled before the ctrl-c listener
NextInputTickFirst ==
    IF task.st = "done" THEN "Finished"
    ELSE IF tickReady THEN "Render"
    ELSE IF sigint THEN "Term"
    ELSE "Pending"

\* variant: the ctrl-c listener is polled before the join handle
NextInputTermFirst ==
    IF sigint THEN "Term"
    ELSE IF task.st = "done" THEN "Finished"
    ELSE IF tickReady THEN "Render"
    ELSE "Pending"

\* stream::select(&mut run, stream::select(&mut ctrl_c, &mut interval)).next():
\* the select is rebuilt on every iteration, so it polls run first, then
\* ctrl_c, then interval, and yields the first that is ready.
NextInput ==
    IF task.st = "done" THEN "Finished"
    ELSE IF sigint THEN "Term"
    ELSE IF tickReady THEN "Render"
    ELSE "Pending"

Select ==
    /\ pc = "select"
    /\ NextInput # "Pending"
    /\ log' = Append(log, Did(NextInput))
    /\ pc' = CASE NextInput = "Finished" -> "finished"
               [] NextInput = "Term" -> "term"
               [] OTHER -> "drain"
    /\ tickReady' = IF NextInput = "Render" THEN FALSE ELSE tickReady
    /\ print' = IF NextInput = "Render" THEN <<>> ELSE print
    /\ UNCHANGED <<terminal, queue, receiverAlive, task, sent, sendFailures,
                   enq, sigint, result>>

\* variant: the frame is redrawn only when something was printed
AfterDrainSkippingDraw(p) == IF p # <<>> THEN "insert" ELSE "select"

\* variant: the drained texts are dropped, the frame is redrawn at once
AfterDrainSkippingInsert(p) == "draw"

\* variant: the insert is skipped when the drained texts hold no line
AfterDrainIfAnyLine(p) == IF NumLines(p) > 0 THEN "insert" ELSE "draw"

\* where the Render step goes when try_recv() finds nothing
AfterDrain(p) == IF p # <<>> THEN "insert" ELSE "draw"

\* one iteration of `while let Ok(event) = receiver.try_recv()`
Drain ==
    /\ pc = "drain"
    /\ IF queue # <<>>
       THEN /\ queue' = TryRecv(queue).rest
            /\ IF TryRecv(queue).event.kind = "Message"
               THEN /\ log' = Append(log, Entry("update", <<TryRecv(queue).event.id>>, 0, 0))
                    /\ UNCHANGED print
               ELSE /\ print' = Append(print, TryRecv(queue).event)
                    /\ UNCHANGED log
            /\ UNCHANGED pc
       ELSE /\ pc' = AfterDrain(print)
            /\ UNCHANGED <<queue, print, log>>
    /\ UNCHANGED <<terminal, receiverAlive, task, sent, sendFailures, enq,
                   sigint, tickReady, result>>

\* the scrollback block: all lines of the drained texts, and the height asked
InsertEntry(p) == Entry("insert", Ids(p), AsU16(NumLines(p)), NumLines(p))

\* terminal.insert_before(num_lines as u16, ..)?
Insert ==
    /\ pc = "insert"
    /\ \E ok \in BOOLEAN :
         IF ok
         THEN /\ log' = Append(log, InsertEntry(print))
              /\ pc' = "draw"
              /\ UNCHANGED <<result, receiverAlive>>
         ELSE /\ Return(Err("terminal"))
              /\ UNCHANGED log
    /\ UNCHANGED <<terminal, queue, print, task, sent, sendFailures, enq,
                   sigint, tickReady>>

\* terminal.draw(|frame| program.draw(frame))?  -- end of the Render step
Draw ==
    /\ pc = "draw"
    /\ \E ok \in BOOLEAN :
         IF ok
         THEN /\ terminal' = TerminalDraw(terminal)
              /\ log' = Append(log, Did("draw"))
              /\ pc' = "select"
              /\ UNCHANGED <<result, receiverAlive>>
         ELSE /\ Return(Err("terminal"))
              /\ UNCHANGED <<terminal, log>>
    /\ UNCHANGED <<queue, print, task, sent, sendFailures, enq, sigint,
                   tickReady>>

\* variant: the value is returned although show_cursor or clear failed
FinishedResultIgnoringTeardown(handle, failed) ==
    IF ~handle.ok THEN Err("join") ELSE Ok(handle.val)

\* variant: a failed join is not propagated, its payload is returned
FinishedResultUnwrapped(handle, failed) ==
    IF failed # "none" /\ handle.ok THEN Err("terminal") ELSE Ok(handle.val)

\* what the Finished arm returns
FinishedResult(handle, failed) ==
    IF ~handle.ok THEN Err("join")
    ELSE IF failed # "none" THEN Err("terminal")
    ELSE Ok(handle.val)

\* the terminal after the Finished arm: `handle?` returns before the teardown
FinishedTerminal(t, handle, failed) ==
    IF ~handle.ok THEN t ELSE Teardown(t, failed)

\* Input::Finished(handle) => { let ret = handle?; show_cursor()?; clear()?; Ok(ret) }
Finished ==
    /\ pc = "finished"
    /\ \E failed \in TeardownOutcomes :
         /\ terminal' = FinishedTerminal(terminal, JoinOutput(task), failed)
         /\ Return(FinishedResult(JoinOutput(task), failed))
    /\ UNCHANGED <<queue, print, task, sent, sendFailures, enq, log, sigint,
                   tickReady>>

\* Input::Term => { show_cursor()?; clear()?; std::process::exit(0) }
Term ==
    /\ pc = "term"
    /\ \E failed \in TeardownOutcomes :
         /\ terminal' = Teardown(terminal, failed)
         /\ IF failed = "none"
            THEN /\ pc' = "exited"
                 /\ result' = Exit(0)
                 /\ receiverAlive' = FALSE
            ELSE Return(Err("terminal"))
    /\ UNCHANGED <<queue, print, task, sent, sendFailures, enq, log, sigint,
                   tickReady>>

----------------------------------------------------------------------------
(* The environment: worker thread, producers, timer, interrupt *)

\* variant: the closure is run a second time by the pool
InvokeTwice(t) == [t EXCEPT !.st = "running", !.calls = @ + 2]

\* the worker calls the FnOnce closure: move || f(Handle { sender })
Invoke(t) == [t EXCEPT !.st = "running", !.calls = @ + 1]

\* the blocking pool starts f
TaskStart ==
    /\ ProcessAlive
    /\ task.st = "spawned"
    /\ task' = Invoke(task)
    /\ UNCHANGED <<pc, terminal, queue, receiverAlive, print, sent,
                   sendFailures, enq, log, sigint, tickReady, result>>

\* f returns a value, or panics
TaskEnd ==
    /\ ProcessAlive
    /\ task.st = "running"
    /\ \E out \in Values \cup {"panic"} :
         task' = [task EXCEPT !.st = "done", !.out = out]
    /\ UNCHANGED <<pc, terminal, queue, receiverAlive, print, sent,
                   sendFailures, enq, log, sigint, tickReady, result>>

TotalSent == sent["f"] + sent["clone"]

\* f owns its Handle while it runs; the clone's thread may outlive f
CanSend(p) ==
    /\ ProcessAlive
    /\ TotalSent < MaxSends
    /\ IF p = "f" THEN task.st = "running" ELSE task.st \in {"running", "done"}

SendEvent(p, ev) ==
    /\ CanSend(p)
    /\ queue' = HandleSend(queue, receiverAlive, ev).queue
    /\ sendFailures' = sendFailures + HandleSend(queue, receiverAlive, ev).surfaced
    /\ enq' = IF receiverAlive THEN Append(enq, ev) ELSE enq
    /\ sent' = [sent EXCEPT ![p] = @ + 1]
    /\ UNCHANGED <<pc, terminal, receiverAlive, print, task, log, sigint,
                   tickReady, result>>

\* Handle::update(message)
HandleUpdate ==
    \E p \in Producers : SendEvent(p, EventMessage(<<p, sent[p] + 1>>))

\* Handle::print(content)
HandlePrint ==
    \E p \in Producers, content \in Texts :
        SendEvent(p, EventPrint(<<p, sent[p] + 1>>, content))

\* the 60 Hz interval has a tick ready
Tick ==
    /\ ProcessAlive
    /\ pc # "returned"
    /\ task.st # "none"
    /\ ~tickReady
    /\ Count("Render") < MaxTicks
    /\ tickReady' = TRUE
    /\ UNCHANGED <<pc, terminal, queue, receiverAlive, print, task, sent,
                   sendFailures, enq, log, sigint, result>>

\* the user presses the interrupt key
Interrupt ==
    /\ ProcessAlive
    /\ pc # "returned"
    /\ task.st # "none"
    /\ ~sigint
    /\ sigint' = TRUE
    /\ log' = Append(log, Did("sigint"))
    /\ UNCHANGED <<pc, terminal, queue, receiverAlive, print, task, sent,
                   sendFailures, enq, tickReady, result>>

Next ==
    \/ Setup
    \/ InitialDraw
    \/ Spawn
    \/ Select
    \/ Drain
    \/ Insert
    \/ Draw
    \/ Finished
    \/ Term
    \/ TaskStart
    \/ TaskEnd
    \/ HandleUpdate
    \/ HandlePrint
    \/ Tick
    \/ Interrupt

Spec == Init /\ [][Next]_vars

----------------------------------------------------------------------------
(* The same program with a producer that never stops: f calls              *)
(* Handle::update again and again while it runs.  The histories sent, enq  *)
(* and the update entries of log are not kept here, and the queue is       *)
(* capped at MaxQueue, so that the behaviours are infinite over finitely   *)
(* many states.  The loop thread is scheduled fairly; nothing obliges f    *)
(* to stop sending or to return.                                           *)

\* Handle::update(message), called by f without a budget
StreamUpdate ==
    /\ ProcessAlive
    /\ task.st = "running"
    /\ receiverAlive
    /\ Len(queue) < MaxQueue
    /\ queue' = HandleSend(queue, receiverAlive, EventMessage(<<"f", 0>>)).queue
    /\ UNCHANGED <<pc, terminal, receiverAlive, print, task, sent,
                   sendFailures, enq, log, sigint, tickReady, result>>

\* one iteration of `while let Ok(event) = receiver.try_recv()` on Messages,
\* the update call not recorded
DrainStream ==
    /\ pc = "drain"
    /\ IF queue # <<>>
       THEN /\ queue' = TryRecv(queue).rest
            /\ UNCHANGED pc
       ELSE /\ pc' = AfterDrain(print)
            /\ UNCHANGED queue
    /\ UNCHANGED <<terminal, receiverAlive, print, task, sent, sendFailures,
                   enq, log, sigint, tickReady, result>>

\* the steps of the thread that runs the loop
LoopStep ==
    \/ Setup
    \/ InitialDraw
    \/ Spawn
    \/ Select
    \/ DrainStream
    \/ Draw
    \/ Finished
    \/ Term

NextLive ==
    \/ LoopStep
    \/ TaskStart
    \/ TaskEnd
    \/ StreamUpdate
    \/ Tick
    \/ Interrupt

SpecLive == Init /\ [][NextLive]_vars /\ WF_vars(LoopStep)

----------------------------------------------------------------------------
(* Vocabulary of the properties *)

Ended == pc \in {"returned", "exited"}

Last(s) == s[Len(s)]

IsPrefix(s, t) == Len(s) <= Len(t) /\ SubSeq(t, 1, Len(s)) = s

\* the loop has run the Finished arm to its end
FinishedProcessed == Count("Finished") = 1 /\ pc # "finished"

\* the interrupt fired before the loop selected Finished
InterruptBeforeFinished ==
    \E i \in 1..Len(log) :
        /\ log[i].op = "sigint"
        /\ \A j \in 1..i : log[j].op # "Finished"

TornDown ==
    /\ terminal.showCursor = 1
    /\ terminal.clear = 1
    /\ ~terminal.cursorHidden
    /\ ~terminal.frame

----------------------------------------------------------------------------
(* C1: on every path by which run() ends after the viewport was allocated, *)
(* the terminal is torn down exactly once: the cursor is shown and the     *)
(* viewport is cleared.  Stated for the exits on which no terminal         *)
(* operation failed (task succeeded, task failed, interrupt).  The code    *)
(* returns from `handle?` before show_cursor and clear when the task       *)
(* failed, so this is violated.                                            *)
C1_TornDownOnEveryExit ==
    (Ended /\ terminal.viewport /\ result # Err("terminal")) => TornDown

(* C2, as stated: once Finished with a successful result is processed,     *)
(* run() has returned exactly the value f produced and Finished is the     *)
(* last thing the loop did.  Violated when show_cursor or clear fails.     *)
C2_ReturnsValueAlways ==
    (FinishedProcessed /\ JoinOutput(task).ok) =>
        /\ pc = "returned"
        /\ result = Ok(task.out)
        /\ Last(log).op = "Finished"

(* C2, amended: once Finished with a successful result is processed, run() *)
(* has returned: exactly the value f produced when show_cursor and clear   *)
(* succeeded, the terminal error otherwise; and no Render or Term input,   *)
(* update, insert, draw or process exit follows the Finished input.        *)
C2_ReturnsValueOrTerminalError ==
    (FinishedProcessed /\ JoinOutput(task).ok) =>
        /\ pc = "returned"
        /\ result = (IF terminal.clear = 1 THEN Ok(task.out) ELSE Err("terminal"))
        /\ \A i \in 1..Len(log) :
             log[i].op = "Finished" =>
                \A j \in (i + 1)..Len(log) : log[j].op = "sigint"

C2_Witness ==
    /\ pc = "returned"
    /\ result = Ok("v2")
    /\ task.out = "v2"
    /\ Count("Render") >= 1
    /\ tickReady
    /\ sigint

(* C3: when the background task failed, processing Finished makes run()    *)
(* return an error; run() never returns a value after a failed task; and   *)
(* the join error is surfaced only by the Finished arm.                    *)
C3_TaskFailurePropagates ==
    /\ (FinishedProcessed /\ ~JoinOutput(task).ok) =>
            (pc = "returned" /\ result = Err("join"))
    /\ task.out = "panic" => result.kind # "Ok"
    /\ result = Err("join") => (FinishedProcessed /\ task.out = "panic")
    /\ (task.out = "panic" /\ ~FinishedProcessed) => result.kind \in {"none", "Err", "exit"}

C3_Witness ==
    /\ pc = "returned"
    /\ result = Err("join")
    /\ task.out = "panic"
    /\ Count("Render") >= 1

(* C4: if the interrupt fires before the loop has processed Finished, the  *)
(* run ends by process exit with status 0, cursor restored and viewport    *)
(* cleared, and not by returning to the caller.  Stated for the runs in    *)
(* which no terminal operation failed.  The select polls the join handle   *)
(* first, so a result that is ready wins over the interrupt: violated.     *)
C4_InterruptAlwaysExits ==
    (Ended /\ InterruptBeforeFinished /\ result # Err("terminal")) =>
        (pc = "exited" /\ result = Exit(0) /\ TornDown)

----------------------------------------------------------------------------
(* Vocabulary of the per-tick properties *)

Inputs == {"Render", "Finished", "Term"}

IsUpdate(e) == e.op = "update"
IsInsert(e) == e.op = "insert"
IsMessage(ev) == ev.kind = "Message"

RECURSIVE Flat(_)
Flat(es) == IF es = <<>> THEN <<>> ELSE Head(es).ids \o Flat(Tail(es))

\* ids of the messages applied by Program.update, in call order
Updated == Flat(SelectSeq(log, IsUpdate))

\* ids of the Print events whose lines were inserted, in insertion order
Inserted == Flat(SelectSeq(log, IsInsert))

\* ids of the Message events accepted by the channel, in enqueue order
EnqueuedMessages == Ids(SelectSeq(enq, IsMessage))

Range(s) == {s[i] : i \in 1..Len(s)}

\* the index after the last entry of the step that input i started
StepEnd(i) ==
    LET later == {k \in (i + 1)..Len(log) : log[k].op \in Inputs}
    IN  IF later = {} THEN Len(log) + 1
        ELSE CHOOSE k \in later : \A j \in later : k <= j

\* the Render step started at log[i] ran to its end without a terminal error
RenderCompleted(i) ==
    /\ log[i].op = "Render"
    /\ (StepEnd(i) <= Len(log) \/ pc = "select")

OpsIn(i, op) == {k \in (i + 1)..(StepEnd(i) - 1) : log[k].op = op}

(* C5: every Render input processed without a terminal error makes        *)
(* exactly one Program.draw, whatever number of events the tick drained;   *)
(* a Render step in progress has not drawn yet.                            *)
C5_OneDrawPerRender ==
    \A i \in 1..Len(log) :
        log[i].op = "Render" =>
            LET draws == OpsIn(i, "draw")
            IN  IF RenderCompleted(i) THEN Cardinality(draws) = 1
                ELSE draws = {}

\* a tick that drained nothing and a tick that drained two events, both drawn
C5_Witness ==
    /\ pc = "select"
    /\ \E i, j \in 1..Len(log) :
         /\ i < j
         /\ RenderCompleted(i) /\ RenderCompleted(j)
         /\ OpsIn(i, "update") = {} /\ OpsIn(i, "insert") = {}
         /\ Cardinality(OpsIn(j, "update")) = 1
         /\ Cardinality(OpsIn(j, "insert")) = 1
         /\ Cardinality(OpsIn(j, "draw")) = 1

(* C6: Program.update is called at most once per Message and in the order  *)
(* the messages were enqueued, and when the drain of a Render step ends    *)
(* every Message enqueued so far has been applied exactly once.            *)
C6_UpdatesInSendOrder ==
    /\ [](IsPrefix(Updated, EnqueuedMessages))
    /\ [][(pc = "drain" /\ pc' # "drain") => Updated' = EnqueuedMessages']_vars

\* two messages of two producers applied in one tick, in enqueue order
C6_Witness ==
    /\ Len(Updated) = 2
    /\ Updated = EnqueuedMessages
    /\ Updated[1][1] # Updated[2][1]
    /\ Count("Render") = 1
    /\ pc = "select"

(* C7: every event accepted by the channel while the receiver is alive is  *)
(* delivered exactly once (a Message applied, a Print inserted).  Stated   *)
(* for the events f itself enqueued before it returned, in the runs that   *)
(* return f's value.  The Finished arm returns without draining the        *)
(* channel, so events enqueued after the last drain are never delivered:   *)
(* violated.                                                               *)
C7_NoEventLost ==
    (pc = "returned" /\ result.kind = "Ok") =>
        \A i \in 1..Len(enq) :
            enq[i].id[1] = "f" =>
                enq[i].id \in Range(Updated) \cup Range(Inserted)

(* C8: Handle.update and Handle.print never report a failure; with the     *)
(* receiver alive the event is appended to the queue whatever its length,  *)
(* and with the receiver gone the call changes nothing.                    *)
C8_SendNeverFails ==
    /\ [](sendFailures = 0)
    /\ [][sent' # sent =>
            IF receiverAlive
            THEN /\ Len(queue') = Len(queue) + 1
                 /\ SubSeq(queue', 1, Len(queue)) = queue
                 /\ enq' = Append(enq, Last(queue'))
            ELSE UNCHANGED <<pc, terminal, queue, receiverAlive, print, task,
                             sendFailures, enq, log, sigint, tickReady, result>>
         ]_vars

\* a send onto a non-empty queue, and a send after the loop has ended
C8_Witness ==
    /\ pc = "returned"
    /\ TotalSent = 2
    /\ Len(enq) = 1
    /\ queue = enq

----------------------------------------------------------------------------
(* Vocabulary of the ordering properties *)

\* position in log of the update call for message id, 0 when there is none
UpdateAt(id) ==
    IF \E k \in 1..Len(log) : log[k].op = "update" /\ log[k].ids = <<id>>
    THEN CHOOSE k \in 1..Len(log) : log[k].op = "update" /\ log[k].ids = <<id>>
    ELSE 0

\* position in log of the insert that carries Print id, 0 when there is none
InsertAt(id) ==
    IF \E k \in 1..Len(log) : log[k].op = "insert" /\ id \in Range(log[k].ids)
    THEN CHOOSE k \in 1..Len(log) : log[k].op = "insert" /\ id \in Range(log[k].ids)
    ELSE 0

\* enq[i] is a Print and enq[j] a Message of the same producer
SameProducer(i, j) == enq[i].id[1] = enq[j].id[1]
PrintMessagePairs ==
    {pm \in (1..Len(enq)) \X (1..Len(enq)) :
        /\ enq[pm[1]].kind = "Print"
        /\ enq[pm[2]].kind = "Message"
        /\ SameProducer(pm[1], pm[2])}

(* C9, as stated: a Print enqueued before a Message of the same producer   *)
(* is inserted before update is called for the Message, and a Message      *)
(* enqueued before a Print is applied before the Print is inserted.        *)
(* Violated when both are drained in one tick: the update is called in     *)
(* the drain, the insert after it.                                         *)
C9_PrintNeverAfterLaterUpdate ==
    \A pm \in PrintMessagePairs :
        LET P == enq[pm[1]].id
            M == enq[pm[2]].id
        IN  IF pm[1] < pm[2]
            THEN UpdateAt(M) # 0 => (InsertAt(P) # 0 /\ InsertAt(P) < UpdateAt(M))
            ELSE InsertAt(P) # 0 => (UpdateAt(M) # 0 /\ UpdateAt(M) < InsertAt(P))

(* C9, amended: a Message enqueued before a Print of the same producer is  *)
(* applied before the Print is inserted; a Print enqueued before a Message *)
(* is taken from the channel before update is called for the Message, and  *)
(* its lines are inserted before the first Program.draw that follows that  *)
(* update (the update itself may precede the insert, within one tick).     *)
C9_PrintBeforeNextDraw ==
    \A pm \in PrintMessagePairs :
        LET P == enq[pm[1]].id
            M == enq[pm[2]].id
        IN  IF pm[1] < pm[2]
            THEN UpdateAt(M) # 0 =>
                    /\ InsertAt(P) # 0 \/ P \in Range(Ids(print))
                    /\ \A k \in (UpdateAt(M) + 1)..Len(log) :
                          log[k].op = "draw" => (InsertAt(P) # 0 /\ InsertAt(P) < k)
            ELSE InsertAt(P) # 0 => (UpdateAt(M) # 0 /\ UpdateAt(M) < InsertAt(P))

\* a Print and a later Message of f drained in one tick, then drawn
C9_Witness ==
    /\ pc = "select"
    /\ Len(enq) = 2
    /\ enq[1].kind = "Print" /\ enq[2].kind = "Message"
    /\ SameProducer(1, 2)
    /\ UpdateAt(enq[2].id) # 0
    /\ UpdateAt(enq[2].id) < InsertAt(enq[1].id)
    /\ Last(log).op = "draw"

\* the text of the Print event id, as it was enqueued
TextOf(id) == enq[CHOOSE i \in 1..Len(enq) : enq[i].id = id].text

RECURSIVE TotalLines(_)
TotalLines(ids) ==
    IF ids = <<>> THEN 0 ELSE LineCount(TextOf(Head(ids))) + TotalLines(Tail(ids))

(* C10: the number of scrollback lines a Render step asks the terminal    *)
(* for equals the total number of lines of the Print texts drained in     *)
(* that tick, for any number of lines.  The count is converted with       *)
(* `as u16`, which wraps at 65536: violated.                               *)
C10_HeightIsLineCount ==
    \A k \in 1..Len(log) :
        log[k].op = "insert" => log[k].height = TotalLines(log[k].ids)

----------------------------------------------------------------------------
(* C11: when a terminal operation fails, run() returns that error at once  *)
(* and the loop does nothing more: the failing step itself logs no call    *)
(* and selects no input, and afterwards no update, insert, draw or input   *)
(* selection happens, the terminal is not touched and no event is taken    *)
(* from the channel.                                                       *)
C11_TerminalErrorAborts ==
    /\ [](result = Err("terminal") => pc = "returned")
    /\ [][(result # Err("terminal") /\ result' = Err("terminal")) =>
            (pc' = "returned" /\ log' = log /\ queue' = queue /\ print' = print)
         ]_vars
    /\ [][result = Err("terminal") =>
            /\ result' = result
            /\ pc' = pc
            /\ log' = log
            /\ terminal' = terminal
            /\ print' = print
            /\ queue' = queue
         ]_vars

\* the scrollback insert failed with a message still waiting in the channel
C11_Witness ==
    /\ pc = "returned"
    /\ result = Err("terminal")
    /\ print # <<>>
    /\ Count("insert") = 0
    /\ queue # <<>>
    /\ tickReady
    /\ TotalSent = 2

\* the loop has run the Term arm to its end
TermProcessed == Count("Term") = 1 /\ pc # "term"

(* C12, as stated: once the loop has selected Term, the run always ends    *)
(* in process exit with status 0, cursor restored and viewport cleared,    *)
(* and never returns to the caller.  Violated when show_cursor or clear    *)
(* fails in the Term arm: `?` returns the error to the caller.             *)
C12_TermNeverReturns ==
    TermProcessed => (pc = "exited" /\ result = Exit(0) /\ TornDown)

(* C12, amended: once the loop has run the Term arm, the process has       *)
(* exited with status 0 with the cursor restored and the viewport cleared  *)
(* when show_cursor and clear succeeded, and run() has returned the        *)
(* terminal error otherwise; the process exits on no other path.           *)
C12_TermExitsOrTerminalError ==
    /\ TermProcessed =>
          IF terminal.clear = 1
          THEN pc = "exited" /\ result = Exit(0) /\ TornDown
          ELSE pc = "returned" /\ result = Err("terminal")
    /\ pc = "exited" => (TermProcessed /\ TornDown /\ result = Exit(0))

\* exit after a Render step, with the task still running and events pending
C12_Witness ==
    /\ pc = "exited"
    /\ result = Exit(0)
    /\ Count("Render") >= 1
    /\ task.st = "running"
    /\ queue # <<>>

----------------------------------------------------------------------------
(* C13, as stated: the entry function f is invoked exactly once in every   *)
(* run, whichever way the run ends.  Stated for the runs in which the      *)
(* terminal was set up.  Violated when the run ends before the blocking    *)
(* pool has started f: the initial draw fails before f is spawned, or a    *)
(* terminal error or the interrupt ends the run while f is still waiting   *)
(* to start.                                                               *)
C13_InvokedExactlyOnce ==
    (Ended /\ terminal.viewport) => task.calls = 1

(* C13, amended: f is invoked at most once in every run, and exactly once  *)
(* in every run in which the loop processes Finished (run() returns f's    *)
(* value or the join error); it is never invoked before the initial draw   *)
(* has succeeded and the task was spawned.                                 *)
C13_InvokedAtMostOnce ==
    /\ task.calls <= 1
    /\ Count("Finished") = 1 => task.calls = 1
    /\ (result.kind = "Ok" \/ result = Err("join")) => task.calls = 1
    /\ pc \in {"setup", "initial_draw", "spawn"} => task.calls = 0
    /\ task.st \in {"none", "spawned"} => task.calls = 0
    /\ task.st \in {"running", "done"} => task.calls = 1

\* f ran once, sent an event and returned; run() handed its value back
C13_Witness ==
    /\ pc = "returned"
    /\ result.kind = "Ok"
    /\ task.calls = 1
    /\ sent["f"] = 1
    /\ Count("Render") = 2

(* C14: the first Program.draw of a run happens before the loop is         *)
(* entered, before f is spawned and before any Program.update: the first   *)
(* call the loop ever makes is the initial draw.                           *)
C14_InitialDrawFirst ==
    /\ (task.st # "none" \/ pc \in {"spawn", "select", "drain", "insert",
                                     "draw", "finished", "term", "exited"})
          => (Len(log) >= 1 /\ log[1].op = "draw")
    /\ \A k \in 1..Len(log) :
          log[k].op # "draw" => (k > 1 /\ log[1].op = "draw")
    /\ (TotalSent > 0 \/ sigint \/ tickReady) => Count("draw") >= 1

\* a message applied in the first tick, after the initial frame only
C14_Witness ==
    /\ Len(log) >= 3
    /\ log[1].op = "draw"
    /\ log[2].op = "Render"
    /\ log[3].op = "update"
    /\ pc = "drain"

----------------------------------------------------------------------------
(* C16: the interrupt is looked at on every iteration and ticks cannot     *)
(* starve it: once the interrupt has fired, no Render input is selected    *)
(* any more (the Render step in progress may complete), and the next       *)
(* input selected is Term or Finished.                                     *)
C16_NoRenderAfterInterrupt ==
    /\ [](\A i, k \in 1..Len(log) :
            (i < k /\ log[i].op = "sigint") => log[k].op # "Render")
    /\ [][(pc = "select" /\ pc' # "select" /\ sigint)
             => pc' \in {"term", "finished"}]_vars

\* the interrupt fired during a drain; that step was drawn, then Term was
\* selected although a tick was ready
C16_Witness ==
    /\ pc = "term"
    /\ tickReady
    /\ \E r, i, d \in 1..Len(log) :
         /\ r < i /\ i < d
         /\ log[r].op = "Render"
         /\ log[i].op = "sigint"
         /\ log[d].op = "draw"
         /\ \A j \in r..i : log[j].op # "draw"

\* log[i] is the last Render input selected so far
LastRender(i) ==
    /\ log[i].op = "Render"
    /\ \A k \in (i + 1)..Len(log) : log[k].op # "Render"

(* C17: in a Render step the scrollback insert is made at most once, after *)
(* all update calls of the tick and before its draw; a step that ran to    *)
(* its draw made the insert exactly when the tick drained at least one     *)
(* Print, as one block holding all Prints of the tick in drain order.      *)
InsertPlacedInTick(i) ==
    LET inserts == OpsIn(i, "insert")
        updates == OpsIn(i, "update")
        draws == OpsIn(i, "draw")
    IN  /\ Cardinality(inserts) <= 1
        /\ \A u \in updates, n \in inserts : u < n
        /\ \A n \in inserts, d \in draws : n < d
        /\ (LastRender(i) /\ draws # {}) =>
              /\ (inserts # {}) <=> (print # <<>>)
              /\ \A n \in inserts : log[n].ids = Ids(print)

C17_InsertOncePerTick ==
    /\ [](\A i \in 1..Len(log) : log[i].op = "Render" => InsertPlacedInTick(i))
    /\ [](pc = "insert" => print # <<>>)
    /\ [][(pc = "drain" /\ pc' = "draw") => print = <<>>]_vars

\* a message and a Print of the empty text drained in one tick: the insert
\* is made, after the update and before the draw
C17_Witness ==
    /\ pc = "select"
    /\ Len(print) = 1
    /\ print[1].text = <<>>
    /\ \E i \in 1..Len(log) :
         /\ LastRender(i)
         /\ Cardinality(OpsIn(i, "update")) = 1
         /\ Cardinality(OpsIn(i, "insert")) = 1
         /\ Cardinality(OpsIn(i, "draw")) = 1

(* C18: the priority of the inputs is the same at every iteration: when    *)
(* the loop selects an input and the background result is ready it         *)
(* selects Finished, even with the interrupt and a tick ready; otherwise,  *)
(* when the interrupt has fired, it selects Term, even with a tick ready;  *)
(* it selects Render only when neither is ready.                           *)
C18_FixedPriority ==
    [][(pc = "select" /\ pc' # "select") =>
          /\ task.st = "done" => pc' = "finished"
          /\ (task.st # "done" /\ sigint) => pc' = "term"
          /\ (task.st # "done" /\ ~sigint) => (tickReady /\ pc' = "drain")
      ]_vars

\* Finished selected in the second iteration with the interrupt and a tick
\* both ready
C18_Witness ==
    /\ pc = "finished"
    /\ tickReady
    /\ Count("Render") = 1
    /\ \E i \in 1..(Len(log) - 1) :
         log[i].op = "sigint" /\ log[i + 1].op = "Finished"

----------------------------------------------------------------------------
(* C15: every Render step terminates and reaches its redraw; producers     *)
(* that keep enqueuing while the drain is in progress cannot keep the      *)
(* drain running forever.  The drain polls the channel again after every   *)
(* event and only stops when it finds the channel empty, so a producer     *)
(* that refills the channel as fast as it is drained keeps the loop in     *)
(* the drain for ever, with the loop thread running all the time:          *)
(* violated.                                                               *)
C15_RenderStepReachesDraw ==
    (pc = "drain") ~> (pc = "draw")

====
